---- MODULE Spec2Model ----
(***************************************************************************)
(* In-memory record stores of test-workspace/sample.py: UserRepository and *)
(* ProductRepository.  A record (a Python dict) is a function from field   *)
(* names to values; a collection (a Python list) is a sequence of records. *)
(* Text values are strings; a float is written as its literal, so that the *)
(* price 0.0 is "0.0".                                                     *)
(***************************************************************************)
EXTENDS Integers, Sequences, FiniteSets, TLC

\* users, products: the lists of a UserRepository and a ProductRepository;
\* users2: the list of a second UserRepository; call, ret: the last call
\* made and what it returned.
VARIABLES users, products, call, ret, users2

vars == <<users, products, call, ret, users2>>

(* ------------------------------ bounds --------------------------------- *)

\* Records held by all stores together.
MaxRecords == 2

\* Distinct outcomes of the random generator that are explored.
GenChoices == 2

(* --------------------------- Python values ----------------------------- *)

\* The value None, returned by a lookup that finds nothing.
None == [found |-> FALSE]

\* An exception leaving the call: the KeyError of record['id'].
KeyError == [found |-> FALSE, raised |-> "KeyError"]

\* An exception leaving the call: the AttributeError of a method the
\* object does not have.
AttributeError == [found |-> FALSE, raised |-> "AttributeError"]

\* A reference to the element at position i of a list (idx is the identity
\* of the referenced dict, rec its contents).
Ref(coll, i) == [found |-> TRUE, idx |-> i, rec |-> coll[i]]

\* bool(x) for x a dict reference or None: a dict is true when non-empty.
Truthy(r) == r.found /\ DOMAIN r.rec # {}

\* d.get(key, default)
dict_get(d, key, default) == IF key \in DOMAIN d THEN d[key] ELSE default

\* {**base, **over}: the keys of both, the value of `over` where both have one.
dict_merge(base, over) ==
  [k \in DOMAIN base \cup DOMAIN over |->
     IF k \in DOMAIN over THEN over[k] ELSE base[k]]

\* d.update(updates) replaces the dict by its merge with updates (mutant).
dict_update_replace(d, updates) == updates

\* d.update(updates): each key of updates is overwritten or added.
dict_update(d, updates) ==
  [k \in DOMAIN d \cup DOMAIN updates |->
     IF k \in DOMAIN updates THEN updates[k] ELSE d[k]]

(* ------------------------ identifier generation ------------------------ *)

\* k=9
IdLen == 9

\* string.ascii_lowercase + string.digits
Alphabet ==
  << "a", "b", "c", "d", "e", "f", "g", "h", "i", "j", "k", "l", "m",
     "n", "o", "p", "q", "r", "s", "t", "u", "v", "w", "x", "y", "z",
     "0", "1", "2", "3", "4", "5", "6", "7", "8", "9" >>

\* ''.join(list)
RECURSIVE Join(_)
Join(s) == IF s = <<>> THEN "" ELSE Head(s) \o Join(Tail(s))

\* The outcomes of random.choices(range(36), k=9) that are explored: the
\* first eight picks are the first symbol, the last pick varies.
Draws ==
  { [i \in 1..IdLen |-> IF i = IdLen THEN j ELSE 1] : j \in 1..GenChoices }

\* _generate_id with the random picks `draw` (indices into the alphabet).
_generate_id(draw) == Join([i \in 1..IdLen |-> Alphabet[draw[i]]])

GenIds == { _generate_id(d) : d \in Draws }

(* ----------------------------- UserRepository -------------------------- *)

\* The for loop of get_user, from position i on.
RECURSIVE get_user_from(_, _, _)
get_user_from(us, user_id, i) ==
  IF i > Len(us) THEN None
  ELSE IF "id" \notin DOMAIN us[i] THEN KeyError
  ELSE IF us[i]["id"] = user_id THEN Ref(us, i)
  ELSE get_user_from(us, user_id, i + 1)

\* get_user that never looks at the last element (mutant).
get_user_skip_last(us, user_id) ==
  IF us = <<>> THEN None
  ELSE LET r == get_user_from(SubSeq(us, 1, Len(us) - 1), user_id, 1)
       IN IF r.found THEN Ref(us, r.idx) ELSE r

\* The for loop run from the end: the last match (mutant).
RECURSIVE get_user_back(_, _, _)
get_user_back(us, user_id, i) ==
  IF i < 1 THEN None
  ELSE IF "id" \notin DOMAIN us[i] THEN KeyError
  ELSE IF us[i]["id"] = user_id THEN Ref(us, i)
  ELSE get_user_back(us, user_id, i - 1)

get_user_last(us, user_id) == get_user_back(us, user_id, Len(us))

get_user(us, user_id) == get_user_from(us, user_id, 1)

fetch_user_last(us, user_id) == get_user_back(us, user_id, Len(us))

fetch_user(us, user_id) == get_user(us, user_id)

\* The dict built by create_user with the computed fields laid over the
\* input and the identifier chosen by truthiness (mutant).
new_user_or(user_data, generated) ==
  dict_merge(user_data,
    [id    |-> IF dict_get(user_data, "id", "") # ""
               THEN user_data["id"] ELSE generated,
     name  |-> dict_get(user_data, "name", "Unknown"),
     email |-> dict_get(user_data, "email", "")])

\* The dict built by create_user with '' as the default identifier, the
\* generator's result being dropped (mutant).
new_user_no_generate(user_data, generated) ==
  dict_merge(
    [id    |-> dict_get(user_data, "id", ""),
     name  |-> dict_get(user_data, "name", "Unknown"),
     email |-> dict_get(user_data, "email", "")],
    user_data)

\* The dict built by create_user without the final **user_data (mutant).
new_user_known_only(user_data, generated) ==
  [id    |-> dict_get(user_data, "id", generated),
   name  |-> dict_get(user_data, "name", "Unknown"),
   email |-> dict_get(user_data, "email", "")]

\* The dict built by create_user; `generated` is what self._generate_id()
\* returned (it is called before .get looks at user_data).
new_user(user_data, generated) ==
  dict_merge(
    [id    |-> dict_get(user_data, "id", generated),
     name  |-> dict_get(user_data, "name", "Unknown"),
     email |-> dict_get(user_data, "email", "")],
    user_data)

\* create_user that puts the new record first (mutant).
create_user_front(us, user_data, generated) ==
  [coll |-> <<new_user(user_data, generated)>> \o us,
   ret  |-> Ref(<<new_user(user_data, generated)>>, 1)]

\* create_user: the list after the call and the returned reference.
create_user(us, user_data, generated) ==
  LET after == Append(us, new_user(user_data, generated))
  IN [coll |-> after, ret |-> Ref(after, Len(after))]

\* update_user that inserts the fields as a new record when the lookup
\* finds nothing (mutant).
update_user_upsert(us, user_id, updates) ==
  LET user == get_user(us, user_id)
  IN IF Truthy(user)
     THEN LET after == [us EXCEPT ![user.idx] =
                          dict_update(us[user.idx], updates)]
          IN [coll |-> after, ret |-> Ref(after, user.idx)]
     ELSE LET after == Append(us, updates)
          IN [coll |-> after, ret |-> Ref(after, Len(after))]

\* update_user that takes the record out and appends its merge at the end
\* (mutant).
update_user_reappend(us, user_id, updates) ==
  LET user == get_user(us, user_id)
  IN IF Truthy(user)
     THEN LET after == Append(
                 SubSeq(us, 1, user.idx - 1)
                   \o SubSeq(us, user.idx + 1, Len(us)),
                 dict_update(us[user.idx], updates))
          IN [coll |-> after, ret |-> Ref(after, Len(after))]
     ELSE [coll |-> us, ret |-> user]

\* update_user: the list after the call and the returned value.
update_user(us, user_id, updates) ==
  LET user == get_user(us, user_id)
  IN IF Truthy(user)
     THEN LET after == [us EXCEPT ![user.idx] =
                          dict_update(us[user.idx], updates)]
          IN [coll |-> after, ret |-> Ref(after, user.idx)]
     ELSE [coll |-> us, ret |-> user]

(* ---------------------------- ProductRepository ------------------------ *)

\* The for loop of get_product, from position i on.
RECURSIVE get_product_from(_, _, _)
get_product_from(ps, product_id, i) ==
  IF i > Len(ps) THEN None
  ELSE IF "id" \notin DOMAIN ps[i] THEN KeyError
  ELSE IF ps[i]["id"] = product_id THEN Ref(ps, i)
  ELSE get_product_from(ps, product_id, i + 1)

get_product(ps, product_id) == get_product_from(ps, product_id, 1)

fetch_product(ps, product_id) == get_product(ps, product_id)

\* The dict built by create_product.
new_product(product_data, generated) ==
  dict_merge(
    [id    |-> dict_get(product_data, "id", generated),
     name  |-> dict_get(product_data, "name", "Unknown Product"),
     price |-> dict_get(product_data, "price", "0.0")],
    product_data)

\* create_product: the list after the call and the returned reference.
create_product(ps, product_data, generated) ==
  LET after == Append(ps, new_product(product_data, generated))
  IN [coll |-> after, ret |-> Ref(after, Len(after))]

\* update_product: ProductRepository defines no such method, so the call
\* raises AttributeError before anything runs and the list is as it was.
update_product(ps, product_id, updates) ==
  [coll |-> ps, ret |-> AttributeError]

(* -------------------------------- inputs ------------------------------- *)

\* All dicts whose keys are a subset of keys and whose values come from
\* vals[key].
Dicts(keys, vals) ==
  UNION { { d \in [S -> UNION { vals[k] : k \in S }] :
              \A k \in S : d[k] \in vals[k] } : S \in SUBSET keys }

\* An explicit identifier is empty or a text the generator can also produce.
ExplicitId == _generate_id([i \in 1..IdLen |-> 1])

UserValues ==
  [id |-> {"", ExplicitId}, name |-> {"Alice"}, role |-> {"admin"}]

UserData == Dicts({"id", "name", "role"}, UserValues)

UpdateValues ==
  [id |-> {ExplicitId}, name |-> {"Bob"}, role |-> {"admin"}]

Updates == Dicts({"id", "name", "role"}, UpdateValues)

UserIds == {""} \cup GenIds

\* The identifiers update_user is called with.
UpdateIds == {"", ExplicitId}

ProductValues ==
  [id |-> {ExplicitId}, name |-> {"Widget"}, price |-> {"5.0"}]

ProductData == Dicts({"id", "name", "price"}, ProductValues)

ProductIds == GenIds

\* The identifiers and the fields update_product is called with.
ProductUpdateIds == {ExplicitId}

ProductUpdates == Dicts({"name"}, [name |-> {"Gadget"}])

(* ----------------------------- state machine --------------------------- *)

Init ==
  /\ users = <<>>
  /\ products = <<>>
  /\ call = [op |-> "init"]
  /\ ret = None
  /\ users2 = <<>>

Room == Len(users) + Len(products) + Len(users2) < MaxRecords

\* get_user that takes the record it finds out of the list (mutant).
GetUserTake(user_id) ==
  /\ call' = [op |-> "get_user", user_id |-> user_id]
  /\ ret' = get_user(users, user_id)
  /\ users' = IF ret'.found
              THEN SubSeq(users, 1, ret'.idx - 1)
                     \o SubSeq(users, ret'.idx + 1, Len(users))
              ELSE users
  /\ UNCHANGED <<products, users2>>

GetUser(user_id) ==
  /\ call' = [op |-> "get_user", user_id |-> user_id]
  /\ ret' = get_user(users, user_id)
  /\ UNCHANGED <<users, products, users2>>

FetchUser(user_id) ==
  /\ call' = [op |-> "fetch_user", user_id |-> user_id]
  /\ ret' = fetch_user(users, user_id)
  /\ UNCHANGED <<users, products, users2>>

CreateUser(user_data, draw) ==
  /\ Room
  /\ LET r == create_user(users, user_data, _generate_id(draw))
     IN /\ users' = r.coll
        /\ ret' = r.ret
  /\ call' = [op |-> "create_user", user_data |-> user_data,
              generated |-> _generate_id(draw)]
  /\ UNCHANGED <<products, users2>>

UpdateUser(user_id, updates) ==
  /\ LET r == update_user(users, user_id, updates)
     IN /\ users' = r.coll
        /\ ret' = r.ret
  /\ call' = [op |-> "update_user", user_id |-> user_id, updates |-> updates]
  /\ UNCHANGED <<products, users2>>

GetProduct(product_id) ==
  /\ call' = [op |-> "get_product", product_id |-> product_id]
  /\ ret' = get_product(products, product_id)
  /\ UNCHANGED <<users, products, users2>>

FetchProduct(product_id) ==
  /\ call' = [op |-> "fetch_product", product_id |-> product_id]
  /\ ret' = fetch_product(products, product_id)
  /\ UNCHANGED <<users, products, users2>>

CreateProduct(product_data, draw) ==
  /\ Room
  /\ LET r == create_product(products, product_data, _generate_id(draw))
     IN /\ products' = r.coll
        /\ ret' = r.ret
  /\ call' = [op |-> "create_product", product_data |-> product_data,
              generated |-> _generate_id(draw)]
  /\ UNCHANGED <<users, users2>>

UpdateProduct(product_id, updates) ==
  /\ LET r == update_product(products, product_id, updates)
     IN /\ products' = r.coll
        /\ ret' = r.ret
  /\ call' = [op |-> "update_product", product_id |-> product_id,
              updates |-> updates]
  /\ UNCHANGED <<users, users2>>

Next ==
  \/ \E user_id \in UserIds : GetUser(user_id)
  \/ \E user_id \in UserIds : FetchUser(user_id)
  \/ \E user_data \in UserData, draw \in Draws : CreateUser(user_data, draw)
  \/ \E user_id \in UpdateIds, updates \in Updates : UpdateUser(user_id, updates)
  \/ \E product_id \in ProductIds : GetProduct(product_id)
  \/ \E product_id \in ProductIds : FetchProduct(product_id)
  \/ \E product_data \in ProductData, draw \in Draws :
       CreateProduct(product_data, draw)
  \/ \E product_id \in ProductUpdateIds, updates \in ProductUpdates :
       UpdateProduct(product_id, updates)

Spec == Init /\ [][Next]_vars


(* Calls that never supply an identifier: create without the id field,    *)
(* update without the id field.                                            *)

CreateUserGenerated(draw) ==
  \E user_data \in UserData :
    /\ "id" \notin DOMAIN user_data
    /\ CreateUser(user_data, draw)

UpdateUserOther(user_id) ==
  \E updates \in Updates :
    /\ "id" \notin DOMAIN updates
    /\ UpdateUser(user_id, updates)

CreateProductGenerated(draw) ==
  \E product_data \in ProductData :
    /\ "id" \notin DOMAIN product_data
    /\ CreateProduct(product_data, draw)

NextGen ==
  \/ \E user_id \in UserIds : GetUser(user_id)
  \/ \E user_id \in UserIds : FetchUser(user_id)
  \/ \E draw \in Draws : CreateUserGenerated(draw)
  \/ \E user_id \in UpdateIds : UpdateUserOther(user_id)
  \/ \E product_id \in ProductIds : GetProduct(product_id)
  \/ \E product_id \in ProductIds : FetchProduct(product_id)
  \/ \E draw \in Draws : CreateProductGenerated(draw)

SpecGen == Init /\ [][NextGen]_vars

(* ------------------------------ properties ----------------------------- *)

\* Record r has the identifier field and its value is x.
HasId(r, x) == "id" \in DOMAIN r /\ r["id"] = x

\* The identifier of r as a one-element tuple, empty when r has none.
IdOf(r) == IF "id" \in DOMAIN r THEN <<r["id"]>> ELSE <<>>

\* The positions of coll whose record has identifier x.
Matches(coll, x) == { i \in 1..Len(coll) : HasId(coll[i], x) }

\* The least position of coll whose record has identifier x.
FirstMatch(coll, x) ==
  CHOOSE i \in Matches(coll, x) : \A j \in Matches(coll, x) : i <= j

\* What a lookup of x in coll is to return: the first match or None.
Lookup(coll, x) ==
  IF Matches(coll, x) = {} THEN None ELSE Ref(coll, FirstMatch(coll, x))

\* coll without its last element.
Front(coll) == SubSeq(coll, 1, Len(coll) - 1)

\* The identifiers of coll are pairwise distinct.
DistinctIds(coll) ==
  \A i, j \in 1..Len(coll) : i # j => IdOf(coll[i]) # IdOf(coll[j])

\* r holds every field of the input d with d's value, the default of every
\* known field d lacks, and nothing but the identifier besides.
Populated(r, d, defaults) ==
  /\ DOMAIN r = DOMAIN d \cup DOMAIN defaults \cup {"id"}
  /\ \A k \in DOMAIN d : r[k] = d[k]
  /\ \A k \in DOMAIN defaults \ DOMAIN d : r[k] = defaults[k]

UserDefaults == [name |-> "Unknown", email |-> ""]

ProductDefaults == [name |-> "Unknown Product", price |-> "0.0"]

\* C1 as stated: right after any create, get of the created record's
\* identifier returns a record equal to the created one.
C1_GetAfterCreate_Original ==
  /\ call.op = "create_user" =>
       LET g == get_user(users, ret.rec["id"])
       IN g.found /\ g.rec = ret.rec
  /\ call.op = "create_product" =>
       LET g == get_product(products, ret.rec["id"])
       IN g.found /\ g.rec = ret.rec

\* C1 amended: right after a create, get of the created record's identifier
\* returns the first record of the collection with that identifier; it is
\* the created record when no earlier record has the identifier, and
\* otherwise it is the earliest such record, which equals the created one
\* only if it holds the same fields with the same values.
C1_GetAfterCreate ==
  /\ call.op = "create_user" =>
       LET g == get_user(users, ret.rec["id"])
           earlier == Matches(Front(users), ret.rec["id"])
       IN /\ g = Lookup(users, ret.rec["id"])
          /\ earlier = {} => g = ret
          /\ earlier # {} =>
               /\ g = Ref(users, FirstMatch(Front(users), ret.rec["id"]))
               /\ g.idx < Len(users)
  /\ call.op = "create_product" =>
       LET g == get_product(products, ret.rec["id"])
           earlier == Matches(Front(products), ret.rec["id"])
       IN /\ g = Lookup(products, ret.rec["id"])
          /\ earlier = {} => g = ret
          /\ earlier # {} =>
               /\ g = Ref(products,
                          FirstMatch(Front(products), ret.rec["id"]))
               /\ g.idx < Len(products)

\* A create of a second user whose identifier no earlier record has.
C1_Witness ==
  /\ call.op = "create_user"
  /\ Len(users) = 2
  /\ Matches(Front(users), ret.rec["id"]) = {}

\* C2: update of an identifier the store holds changes only the first
\* record with that identifier and there only the fields named in the
\* updates, which take the supplied values; the other fields, the other
\* records and the length stay, and the call returns the merged record.
C2_UpdateMergesFirstMatch ==
  [][ (call'.op = "update_user" /\ Matches(users, call'.user_id) # {}) =>
        LET i == FirstMatch(users, call'.user_id)
            u == call'.updates
        IN /\ Len(users') = Len(users)
           /\ \A j \in 1..Len(users) : j # i => users'[j] = users[j]
           /\ DOMAIN users'[i] = DOMAIN users[i] \cup DOMAIN u
           /\ \A k \in DOMAIN u : users'[i][k] = u[k]
           /\ \A k \in DOMAIN users[i] \ DOMAIN u :
                users'[i][k] = users[i][k]
           /\ ret' = Ref(users', i) ]_vars

\* An update that found the first of two users and named two fields.
C2_Witness ==
  /\ call.op = "update_user"
  /\ Len(users) = 2
  /\ ret.found /\ ret.idx = 1
  /\ DOMAIN call.updates = {"name", "role"}
  /\ ret.rec["name"] = "Bob"

\* C3: update of an identifier no record has returns None and leaves the
\* collection as it was.
C3_UpdateNotFound ==
  [][ (call'.op = "update_user" /\ Matches(users, call'.user_id) = {}) =>
        /\ ret' = None
        /\ users' = users ]_vars

\* An update with fields to set that found no record in a non-empty store.
C3_Witness ==
  /\ call.op = "update_user"
  /\ ret = None
  /\ Len(users) >= 1
  /\ DOMAIN call.updates # {}

\* C4: the record create returns holds every supplied field with the
\* caller's value, the declared default of every known field not supplied,
\* and no field besides these and the identifier; for an empty input it is
\* the generated identifier plus the defaults.
C4_CreatePopulates ==
  /\ call.op = "create_user" =>
       /\ Populated(ret.rec, call.user_data, UserDefaults)
       /\ DOMAIN call.user_data = {} =>
            ret.rec = [id |-> call.generated, name |-> "Unknown",
                       email |-> ""]
  /\ call.op = "create_product" =>
       /\ Populated(ret.rec, call.product_data, ProductDefaults)
       /\ DOMAIN call.product_data = {} =>
            ret.rec = [id |-> call.generated, name |-> "Unknown Product",
                       price |-> "0.0"]

\* A create of a user from an extra field alone.
C4_Witness ==
  /\ call.op = "create_user"
  /\ DOMAIN call.user_data = {"role"}
  /\ ret.rec["role"] = "admin"
  /\ ret.rec["name"] = "Unknown"

\* C5 as stated: the created record's identifier is the supplied one when
\* the input has a non-empty identifier, and the generated one otherwise.
C5_CreateIdentifier_Original ==
  call.op = "create_user" =>
    IF "id" \in DOMAIN call.user_data /\ call.user_data["id"] # ""
    THEN ret.rec["id"] = call.user_data["id"]
    ELSE ret.rec["id"] = call.generated

\* C5 amended: the created record's identifier is the supplied one whenever
\* the input has the identifier field, an empty one included, and the
\* generated one only when the input has no identifier field.
C5_CreateIdentifier ==
  /\ call.op = "create_user" =>
       IF "id" \in DOMAIN call.user_data
       THEN ret.rec["id"] = call.user_data["id"]
       ELSE ret.rec["id"] = call.generated
  /\ call.op = "create_product" =>
       IF "id" \in DOMAIN call.product_data
       THEN ret.rec["id"] = call.product_data["id"]
       ELSE ret.rec["id"] = call.generated

\* A create of a user whose input supplies the empty identifier.
C5_Witness ==
  /\ call.op = "create_user"
  /\ "id" \in DOMAIN call.user_data
  /\ call.user_data["id"] = ""
  /\ users[Len(users)]["id"] = ""

\* C6: create appends one record, the one it returns, and leaves the
\* records already held at their positions with their values.
C6_CreateAppends ==
  [][ /\ call'.op = "create_user" =>
           /\ Len(users') = Len(users) + 1
           /\ Front(users') = users
           /\ ret' = Ref(users', Len(users'))
           /\ products' = products
      /\ call'.op = "create_product" =>
           /\ Len(products') = Len(products) + 1
           /\ Front(products') = products
           /\ ret' = Ref(products', Len(products'))
           /\ users' = users ]_vars

\* A create into a store that already held a different record.
C6_Witness ==
  /\ call.op = "create_user"
  /\ Len(users) = 2
  /\ ret.idx = 2
  /\ users[1] # users[2]

\* C7: what fetch returns is what get returns for the same argument, in
\* every state and for every identifier.
C7_FetchIsGet ==
  /\ call.op = "fetch_user" => ret = get_user(users, call.user_id)
  /\ call.op = "fetch_product" =>
       ret = get_product(products, call.product_id)
  /\ \A x \in UserIds : fetch_user(users, x) = get_user(users, x)
  /\ \A x \in ProductIds :
       fetch_product(products, x) = get_product(products, x)

\* A fetch of an identifier that two different users share.
C7_Witness ==
  /\ call.op = "fetch_user"
  /\ Len(users) = 2
  /\ Matches(users, call.user_id) = {1, 2}
  /\ users[1] # users[2]
  /\ ret.found

\* C8 as stated: no update changes the identifier of any record.
C8_UpdateKeepsIds_Original ==
  [][ call'.op = "update_user" =>
        /\ Len(users') = Len(users)
        /\ \A j \in 1..Len(users) : IdOf(users'[j]) = IdOf(users[j]) ]_vars

\* C8 amended: an update whose fields do not name the identifier changes no
\* record's identifier; one that names it sets the identifier of the first
\* matching record to the supplied value and changes no other.
C8_UpdateKeepsIds ==
  [][ call'.op = "update_user" =>
        /\ Len(users') = Len(users)
        /\ \A j \in 1..Len(users) :
             IF /\ "id" \in DOMAIN call'.updates
                /\ Matches(users, call'.user_id) # {}
                /\ j = FirstMatch(users, call'.user_id)
             THEN IdOf(users'[j]) = <<call'.updates["id"]>>
             ELSE IdOf(users'[j]) = IdOf(users[j]) ]_vars

\* An update that found a record and set fields other than the identifier.
C8_Witness ==
  /\ call.op = "update_user"
  /\ ret.found
  /\ DOMAIN call.updates = {"name"}
  /\ ret.rec["id"] = call.user_id

\* C9: a create with the identifier of a record already held leaves at
\* least two records with that identifier, and get and fetch of it return
\* the earlier one; in every state get returns the first record in
\* insertion order whose identifier is the argument, or None.
C9_FirstMatchWins ==
  /\ ( /\ call.op = "create_user"
       /\ "id" \in DOMAIN call.user_data
       /\ Matches(Front(users), call.user_data["id"]) # {} ) =>
       LET x == call.user_data["id"]
           first == FirstMatch(Front(users), x)
       IN /\ Cardinality(Matches(users, x)) >= 2
          /\ Len(users) \in Matches(users, x)
          /\ get_user(users, x) = Ref(users, first)
          /\ fetch_user(users, x) = Ref(users, first)
          /\ first < Len(users)
  /\ \A x \in UserIds : get_user(users, x) = Lookup(users, x)
  /\ \A x \in ProductIds : get_product(products, x) = Lookup(products, x)

\* A create with the identifier of a different record already held.
C9_Witness ==
  /\ call.op = "create_user"
  /\ "id" \in DOMAIN call.user_data
  /\ Len(users) = 2
  /\ HasId(users[1], call.user_data["id"])
  /\ users[1] # users[2]

\* C10 as stated: when no create supplies an identifier and no update
\* names it, the identifiers of a collection are pairwise distinct.
C10_GeneratedIdsDistinct_Original ==
  DistinctIds(users) /\ DistinctIds(products)

\* C10 amended: when no create supplies an identifier and no update names
\* it, the identifier of a created record is the generator's result, taken
\* without a look at the collection; the identifiers stay pairwise distinct
\* exactly when that result is not yet the identifier of a record held.
C10_GeneratedIdsDistinct ==
  /\ call.op = "create_user" =>
       /\ IdOf(users[Len(users)]) = <<call.generated>>
       /\ DistinctIds(users) <=>
            /\ DistinctIds(Front(users))
            /\ Matches(Front(users), call.generated) = {}
  /\ call.op = "create_product" =>
       /\ IdOf(products[Len(products)]) = <<call.generated>>
       /\ DistinctIds(products) <=>
            /\ DistinctIds(Front(products))
            /\ Matches(Front(products), call.generated) = {}

\* A create whose generated identifier a record already held has.
C10_Witness ==
  /\ call.op = "create_user"
  /\ Len(users) = 2
  /\ HasId(users[1], call.generated)
  /\ HasId(users[2], call.generated)

\* C11: every record of a collection has the identifier field, whatever
\* create and update were given; so no lookup raises KeyError in its scan,
\* a record a lookup finds is a non-empty dict, and update returns None
\* only when no record has the identifier it was called with.
C11_RecordsKeepId ==
  /\ \A i \in 1..Len(users) : "id" \in DOMAIN users[i]
  /\ \A i \in 1..Len(products) : "id" \in DOMAIN products[i]
  /\ ret # KeyError
  /\ \A x \in UserIds :
       LET g == get_user(users, x)
       IN g # KeyError /\ (g.found => Truthy(g))
  /\ \A x \in ProductIds : get_product(products, x) # KeyError
  /\ (call.op = "update_user" /\ ~ret.found) =>
       /\ ret = None
       /\ Matches(users, call.user_id) = {}

\* An update that found a record and was given no fields at all.
C11_Witness ==
  /\ call.op = "update_user"
  /\ DOMAIN call.updates = {}
  /\ ret.found
  /\ Len(users) = 2

\* C12: the product store has the update of the user store: update of an
\* identifier a product has leaves the list and returns the value that
\* update_user leaves and returns for the same list and arguments, that is
\* the supplied fields are merged into the first product with the identifier
\* and that product is returned.
C12_ProductUpdateLikeUser ==
  [][ ( /\ call'.op = "update_product"
        /\ Matches(products, call'.product_id) # {} ) =>
        LET r == update_user(products, call'.product_id, call'.updates)
            i == FirstMatch(products, call'.product_id)
        IN /\ products' = r.coll
           /\ ret' = r.ret
           /\ products'[i] = dict_update(products[i], call'.updates)
           /\ ret' = Ref(products', i) ]_vars

\* The calls that only read.
ReadOps == {"get_user", "fetch_user", "get_product", "fetch_product"}

\* C13: get and fetch leave both collections as they were, and a get that
\* directly follows a get with the same identifier returns the same result.
C13_ReadsArePure ==
  [][ /\ call'.op \in ReadOps =>
           /\ users' = users
           /\ products' = products
      /\ ( /\ call.op = "get_user" /\ call'.op = "get_user"
           /\ call'.user_id = call.user_id ) => ret' = ret
      /\ ( /\ call.op = "get_product" /\ call'.op = "get_product"
           /\ call'.product_id = call.product_id ) => ret' = ret ]_vars

\* A get that found the second of two users.
C13_Witness ==
  /\ call.op = "get_user"
  /\ Len(users) = 2
  /\ ret.found /\ ret.idx = 2

\* An update of an identifier a record has, whose fields set another
\* identifier (a step from the unprimed to the primed state).
RenamingUpdate ==
  /\ call'.op = "update_user"
  /\ Matches(users, call'.user_id) # {}
  /\ "id" \in DOMAIN call'.updates
  /\ call'.updates["id"] # call'.user_id

\* C14 as stated: after an update that sets a new identifier the record is
\* at its position with the new identifier, get of the old identifier
\* returns None and get of the new identifier returns that record.
C14_UpdateRenames_Original ==
  [][ RenamingUpdate =>
        LET i == FirstMatch(users, call'.user_id)
        IN /\ Len(users') = Len(users)
           /\ HasId(users'[i], call'.updates["id"])
           /\ get_user(users', call'.user_id) = None
           /\ get_user(users', call'.updates["id"]) = Ref(users', i) ]_vars

\* C14 amended: after an update that sets a new identifier the record is at
\* its position with the new identifier; get of the old identifier returns
\* None when no other record has the old identifier and otherwise the
\* first other record that has it; get of the new identifier returns the
\* first record with the new identifier, which is the updated record when
\* no record before it already had the new identifier.
C14_UpdateRenames ==
  [][ RenamingUpdate =>
        LET old == call'.user_id
            new == call'.updates["id"]
            i == FirstMatch(users, old)
            others == Matches(users, old) \ {i}
            before == { j \in Matches(users, new) : j < i }
        IN /\ Len(users') = Len(users)
           /\ HasId(users'[i], new)
           /\ ret' = Ref(users', i)
           /\ others = {} => get_user(users', old) = None
           /\ others # {} =>
                get_user(users', old) =
                  Ref(users', CHOOSE j \in others : \A k \in others : j <= k)
           /\ before = {} => get_user(users', new) = Ref(users', i)
           /\ before # {} =>
                get_user(users', new) = Ref(users', FirstMatch(users, new))
     ]_vars

\* An update that gave the first of two users, which shared the empty
\* identifier, another identifier.
C14_Witness ==
  /\ call.op = "update_user"
  /\ call.user_id = ""
  /\ "id" \in DOMAIN call.updates
  /\ Len(users) = 2
  /\ ret.found /\ ret.idx = 1
  /\ HasId(users[1], call.updates["id"])
  /\ HasId(users[2], "")

\* C15: no step shortens or reorders a collection: its length does not
\* decrease and each position keeps its record, which only an update that
\* finds it changes, by merging the supplied fields into it.
C15_NeverShrinksOrReorders ==
  [][ /\ Len(users') >= Len(users)
      /\ Len(products') >= Len(products)
      /\ \A i \in 1..Len(products) : products'[i] = products[i]
      /\ \A i \in 1..Len(users) :
           \/ users'[i] = users[i]
           \/ /\ call'.op = "update_user"
              /\ Matches(users, call'.user_id) # {}
              /\ i = FirstMatch(users, call'.user_id)
              /\ users'[i] = dict_update(users[i], call'.updates) ]_vars

\* An update that changed the second of two users where it is.
C15_Witness ==
  /\ call.op = "update_user"
  /\ Len(users) = 2
  /\ ret.found /\ ret.idx = 2
  /\ DOMAIN call.updates = {"name"}
  /\ users[2]["name"] = "Bob"
  /\ users[1]["name"] # "Bob"

(* A second UserRepository next to the first and the ProductRepository.   *)
(* Its methods are the same code run with the other object as self.       *)

GetUserSecond(user_id) ==
  /\ call' = [op |-> "get_user", self |-> "second", user_id |-> user_id]
  /\ ret' = get_user(users2, user_id)
  /\ UNCHANGED <<users, products, users2>>

FetchUserSecond(user_id) ==
  /\ call' = [op |-> "fetch_user", self |-> "second", user_id |-> user_id]
  /\ ret' = fetch_user(users2, user_id)
  /\ UNCHANGED <<users, products, users2>>

\* create_user of the second object with the list being one class-level
\* list that both objects share (mutant).
CreateUserSecondShared(user_data, draw) ==
  /\ Room
  /\ LET r == create_user(users, user_data, _generate_id(draw))
     IN /\ users' = r.coll
        /\ users2' = r.coll
        /\ ret' = r.ret
  /\ call' = [op |-> "create_user", self |-> "second",
              user_data |-> user_data, generated |-> _generate_id(draw)]
  /\ UNCHANGED products

CreateUserSecond(user_data, draw) ==
  /\ Room
  /\ LET r == create_user(users2, user_data, _generate_id(draw))
     IN /\ users2' = r.coll
        /\ ret' = r.ret
  /\ call' = [op |-> "create_user", self |-> "second",
              user_data |-> user_data, generated |-> _generate_id(draw)]
  /\ UNCHANGED <<users, products>>

UpdateUserSecond(user_id, updates) ==
  /\ LET r == update_user(users2, user_id, updates)
     IN /\ users2' = r.coll
        /\ ret' = r.ret
  /\ call' = [op |-> "update_user", self |-> "second", user_id |-> user_id,
              updates |-> updates]
  /\ UNCHANGED <<users, products>>

\* The inputs of the calls when three stores are run side by side.
TwoUserData == { d \in UserData : DOMAIN d \subseteq {"id"} }

TwoUpdates == { u \in Updates : DOMAIN u \in {{"id"}, {"name"}} }

NextTwo ==
  \/ \E user_id \in UpdateIds : GetUser(user_id)
  \/ \E user_id \in UpdateIds : FetchUser(user_id)
  \/ \E user_data \in TwoUserData, draw \in Draws :
       CreateUser(user_data, draw)
  \/ \E user_id \in UpdateIds, updates \in TwoUpdates :
       UpdateUser(user_id, updates)
  \/ \E user_id \in UpdateIds : GetUserSecond(user_id)
  \/ \E user_id \in UpdateIds : FetchUserSecond(user_id)
  \/ \E user_data \in TwoUserData, draw \in Draws :
       CreateUserSecond(user_data, draw)
  \/ \E user_id \in UpdateIds, updates \in TwoUpdates :
       UpdateUserSecond(user_id, updates)
  \/ \E product_id \in ProductIds : GetProduct(product_id)
  \/ \E product_id \in ProductIds : FetchProduct(product_id)
  \/ \E draw \in Draws : CreateProductGenerated(draw)
  \/ \E product_id \in ProductUpdateIds, updates \in ProductUpdates :
       UpdateProduct(product_id, updates)

SpecTwo == Init /\ [][NextTwo]_vars

UserOps == {"get_user", "fetch_user", "create_user", "update_user"}

ProductOps ==
  {"get_product", "fetch_product", "create_product", "update_product"}

\* C16: a call on one store leaves the collection of every other store as
\* it was: a call on the first user store leaves the second user store and
\* the product store, a call on the second user store leaves the first and
\* the product store, a call on the product store leaves both user stores.
C16_StoresIndependent ==
  [][ /\ (call'.op \in UserOps /\ "self" \notin DOMAIN call') =>
           /\ users2' = users2
           /\ products' = products
      /\ (call'.op \in UserOps /\ "self" \in DOMAIN call') =>
           /\ users' = users
           /\ products' = products
      /\ call'.op \in ProductOps =>
           /\ users' = users
           /\ users2' = users2 ]_vars

\* A create on the second user store while the first user store holds a
\* record.
C16_Witness ==
  /\ call.op = "create_user"
  /\ "self" \in DOMAIN call
  /\ Len(users) = 1
  /\ Len(users2) = 1
  /\ users2[1] # users[1]

====
